---------------------------- MODULE Spec2Model ----------------------------
(***************************************************************************)
(* Model of _genproto.py: main() prepares rpc.proto for code generation    *)
(* (line filter + write back), runs grpc.tools.protoc as a child process   *)
(* and patches the imports of the generated rpc_pb2.py / rpc_pb2_grpc.py   *)
(* with sed_inplace.                                                       *)
(*                                                                         *)
(* Text is modelled by TLA+ strings; a file is a record [exists, content]  *)
(* whose content is the sequence of its lines (line terminators are not    *)
(* modelled: no operation of the script looks at or changes them).         *)
(* Filesystem I/O errors are not modelled.                                 *)
(***************************************************************************)
EXTENDS Integers, Sequences, FiniteSets, TLC

VARIABLES
    pc,             \* position of main()
    importable,     \* environment: "from grpc.tools import protoc" succeeds
    rpc_proto,      \* RPC_PROTO_FILE
    etcdrpc_dir,    \* ETCDRPC_DIR exists
    init_py,        \* ETCDRPC_DIR / "__init__.py" exists
    rpc_pb2,        \* RPC_PB2_FILE
    rpc_pb2_grpc,   \* RPC_PB2_GRPC_FILE
    lines,          \* main(): lines
    idx,            \* main(): position of "for line in lines" (1-based, next line)
    skip_lines,     \* main(): skip_lines
    modified_lines, \* main(): modified_lines
    result,         \* main(): result of subprocess.run, <<>> before the call
    exit_code,      \* <<>> while running, <<c>> once the process has ended
    console,        \* everything printed, in order
    kept,           \* history: input positions of the appended lines
    hist            \* history: skip_lines at the top of each loop iteration

vars == <<pc, importable, rpc_proto, etcdrpc_dir, init_py, rpc_pb2, rpc_pb2_grpc,
          lines, idx, skip_lines, modified_lines, result, exit_code, console,
          kept, hist>>

fsVars == <<rpc_proto, etcdrpc_dir, init_py, rpc_pb2, rpc_pb2_grpc>>
loopVars == <<lines, idx, skip_lines, modified_lines, kept, hist>>

----------------------------------------------------------------------------
(* Bounds of the model *)

MaxBlockLines == 5      \* longest schema file over BlockPool
MaxLines == 2           \* longest schema file over LinePool
MaxArtifactLines == 2   \* longest generated artifact
MaxCode == 2            \* largest exit code of the generator

(* Program constants *)

SkipCount == 3

GOGOPROTO == "gogoproto"
ANNOTATIONS == "google/api/annotations.proto"
HTTP_OPTION == "option (google.api.http)"
KV_PATH == "etcd/mvcc/mvccpb/kv.proto"
KV_FILE == "kv.proto"
AUTH_PATH == "etcd/auth/authpb/auth.proto"
AUTH_FILE == "auth.proto"

----------------------------------------------------------------------------
(* Python string operations *)

\* pat in s
Contains(s, pat) ==
    \E i \in 1..(Len(s) - Len(pat) + 1) : SubSeq(s, i, i + Len(pat) - 1) = pat

\* s.replace(old, new): every non-overlapping occurrence, leftmost first
RECURSIVE Replace(_, _, _)
Replace(s, old, new) ==
    IF Len(s) < Len(old) THEN s
    ELSE IF SubSeq(s, 1, Len(old)) = old
         THEN new \o Replace(SubSeq(s, Len(old) + 1, Len(s)), old, new)
         ELSE SubSeq(s, 1, 1) \o Replace(SubSeq(s, 2, Len(s)), old, new)

\* s.strip(), for the blanks the modelled lines hold
RECURSIVE Strip(_)
Strip(s) ==
    IF Len(s) = 0 THEN s
    ELSE IF SubSeq(s, 1, 1) = " " THEN Strip(SubSeq(s, 2, Len(s)))
    ELSE IF SubSeq(s, Len(s), Len(s)) = " " THEN Strip(SubSeq(s, 1, Len(s) - 1))
    ELSE s

\* variant: the pattern without its anchor, as in the sed script quoted at lines 120-121
ReSubAnchored_Unanchored(prefix, replacement, line) ==
    Replace(line, prefix, replacement)

\* re.sub(r"^" + prefix, replacement, line): without re.MULTILINE the anchor
\* matches at position 0 only, so at most the leading occurrence is replaced
ReSubAnchored(prefix, replacement, line) ==
    IF Len(line) >= Len(prefix) /\ SubSeq(line, 1, Len(prefix)) = prefix
    THEN replacement \o SubSeq(line, Len(prefix) + 1, Len(line))
    ELSE line

\* sed_inplace(file_path, "^" + prefix, replacement) on the file's lines
sed_inplace(content, prefix, replacement) ==
    [k \in 1..Len(content) |-> ReSubAnchored(prefix, replacement, content[k])]

----------------------------------------------------------------------------
(* The line filter of main() *)

\* variant: the gogoproto test left out
Classify_NoGogoproto(line, skip) ==
    IF skip > 0 THEN "skip"
    ELSE IF Contains(line, ANNOTATIONS) THEN "annotations"
    ELSE IF Contains(line, HTTP_OPTION) THEN "http_block"
    ELSE "emit"

\* variant: the http option tested before the two drop markers
Classify_BlockFirst(line, skip) ==
    IF skip > 0 THEN "skip"
    ELSE IF Contains(line, HTTP_OPTION) THEN "http_block"
    ELSE IF Contains(line, GOGOPROTO) THEN "gogoproto"
    ELSE IF Contains(line, ANNOTATIONS) THEN "annotations"
    ELSE "emit"

\* variant: the http option tested before the skip counter
Classify_RestartInBlock(line, skip) ==
    IF Contains(line, HTTP_OPTION) /\ ~Contains(line, GOGOPROTO)
          /\ ~Contains(line, ANNOTATIONS) THEN "http_block"
    ELSE IF skip > 0 THEN "skip"
    ELSE IF Contains(line, GOGOPROTO) THEN "gogoproto"
    ELSE IF Contains(line, ANNOTATIONS) THEN "annotations"
    ELSE "emit"

\* which branch of the loop body a line takes
Classify(line, skip) ==
    IF skip > 0 THEN "skip"
    ELSE IF Contains(line, GOGOPROTO) THEN "gogoproto"
    ELSE IF Contains(line, ANNOTATIONS) THEN "annotations"
    ELSE IF Contains(line, HTTP_OPTION) THEN "http_block"
    ELSE "emit"

\* variant: the second replacement left out
Substitute_FirstOnly(line) ==
    Replace(line, KV_PATH, KV_FILE)

\* the two replacements of a line that reaches them
Substitute(line) ==
    Replace(Replace(line, KV_PATH, KV_FILE), AUTH_PATH, AUTH_FILE)

\* variant: the http-option branch without its continue
FilterStep_TriggerKept(line, skip, out) ==
    LET kind == Classify(line, skip) IN
    CASE kind = "skip" -> [skip |-> skip - 1, out |-> out, echo |-> <<>>]
      [] kind \in {"gogoproto", "annotations"} ->
            [skip |-> skip, out |-> out,
             echo |-> <<"Dropping line: " \o Strip(line)>>]
      [] kind = "http_block" ->
            [skip |-> SkipCount, out |-> Append(out, Substitute(line)),
             echo |-> <<"Dropping http option block starting with: " \o Strip(line)>>]
      [] OTHER -> [skip |-> skip, out |-> Append(out, Substitute(line)),
                   echo |-> <<>>]

\* variant: the block one line short
FilterStep_ShortBlock(line, skip, out) ==
    LET kind == Classify(line, skip) IN
    CASE kind = "skip" -> [skip |-> skip - 1, out |-> out, echo |-> <<>>]
      [] kind \in {"gogoproto", "annotations"} ->
            [skip |-> skip, out |-> out,
             echo |-> <<"Dropping line: " \o Strip(line)>>]
      [] kind = "http_block" ->
            [skip |-> SkipCount - 1, out |-> out,
             echo |-> <<"Dropping http option block starting with: " \o Strip(line)>>]
      [] OTHER -> [skip |-> skip, out |-> Append(out, Substitute(line)),
                   echo |-> <<>>]

\* one iteration of the loop body: the new skip_lines, the new
\* modified_lines and what the iteration prints
FilterStep(line, skip, out) ==
    LET kind == Classify(line, skip) IN
    CASE kind = "skip" -> [skip |-> skip - 1, out |-> out, echo |-> <<>>]
      [] kind \in {"gogoproto", "annotations"} ->
            [skip |-> skip, out |-> out,
             echo |-> <<"Dropping line: " \o Strip(line)>>]
      [] kind = "http_block" ->
            [skip |-> SkipCount, out |-> out,
             echo |-> <<"Dropping http option block starting with: " \o Strip(line)>>]
      [] OTHER -> [skip |-> skip, out |-> Append(out, Substitute(line)),
                   echo |-> <<>>]

\* the whole loop over a line sequence: what main() writes back for input ls
RECURSIVE FilterFrom(_, _, _, _)
FilterFrom(ls, i, skip, out) ==
    IF i > Len(ls) THEN out
    ELSE LET r == FilterStep(ls[i], skip, out) IN FilterFrom(ls, i + 1, r.skip, r.out)

FilterLines(ls) == FilterFrom(ls, 1, 0, <<>>)

----------------------------------------------------------------------------
(* Inputs *)

SeqsUpTo(S, n) == UNION {[1..k -> S] : k \in 0..n}

\* line kinds that decide the block structure of a schema file
BlockPool ==
    { "message WatchRequest {",
      "    option (google.api.http) = {",
      "option (gogoproto.marshaler_all) = true; // option (google.api.http)" }

\* line kinds that decide the text of the emitted lines
LinePool ==
    { "syntax = \"proto3\";",
      "import \"gogoproto/gogo.proto\";",
      "import \"google/api/annotations.proto\";",
      "import \"google/api/annotations.proto\"; // option (google.api.http)",
      "    option (google.api.http) = {",
      "import \"etcd/mvcc/mvccpb/kv.proto\";",
      "import \"etcd/auth/authpb/auth.proto\";",
      "// etcd/auth/authpb/auth.proto etcd/mvcc/mvccpb/kv.proto etcd/mvcc/mvccpb/kv.proto",
      "// etcd/mvcc/mvccpb/etcd/mvcc/mvccpb/kv.proto",
      "// gogoetcd/auth/authpb/auth.protoproto google/api/annotations.etcd/mvcc/mvccpb/kv.proto" }

\* the schema files of the filter stage
FilterFiles == SeqsUpTo(BlockPool, MaxBlockLines) \cup SeqsUpTo(LinePool, MaxLines)

\* a schema file shaped like etcd's rpc.proto
SampleSchema ==
    << "syntax = \"proto3\";",
       "import \"gogoproto/gogo.proto\";",
       "import \"etcd/mvcc/mvccpb/kv.proto\";",
       "import \"etcd/auth/authpb/auth.proto\";",
       "import \"google/api/annotations.proto\";",
       "  rpc Range(RangeRequest) returns (RangeResponse) {",
       "    option (google.api.http) = {",
       "      post: \"/v3/kv/range\"",
       "      body: \"*\"",
       "    };",
       "  }" >>

SchemaSamples == { SampleSchema, <<"syntax = \"proto3\";">> }

File(content) == [exists |-> TRUE, content |-> content]
NoFile == [exists |-> FALSE, content |-> <<>>]

Pb2Pool ==
    { "import auth_pb2 as auth__pb2",
      "import kv_pb2 as kv__pb2",
      "  # import auth_pb2, import kv_pb2" }

GrpcPool ==
    { "import rpc_pb2 as rpc__pb2",
      "    import rpc_pb2" }

\* what the generator can write for an artifact
Generated(pool) == {File(c) : c \in SeqsUpTo(pool, MaxArtifactLines) \ {<<>>}}

\* artifacts left by an earlier, complete run
StalePb2 == File(<<"from etcd3.etcdrpc import auth_pb2 as auth__pb2">>)
StaleGrpc == File(<<"from etcd3.etcdrpc import rpc_pb2 as rpc__pb2">>)

\* captured output of the generator
Streams == {"", "rpc.proto: warning"}

NoResult == <<>>
Running == <<>>

----------------------------------------------------------------------------
(* Initial states: main() is about to start *)

InitWith(schemas, importables) ==
    /\ pc = "start"
    /\ importable \in importables
    /\ rpc_proto \in {File(c) : c \in schemas}
    /\ \E old \in BOOLEAN :
          /\ etcdrpc_dir = old
          /\ init_py = old
          /\ rpc_pb2 = IF old THEN StalePb2 ELSE NoFile
          /\ rpc_pb2_grpc = IF old THEN StaleGrpc ELSE NoFile
    /\ lines = <<>>
    /\ idx = 0
    /\ skip_lines = 0
    /\ modified_lines = <<>>
    /\ result = NoResult
    /\ exit_code = Running
    /\ console = <<>>
    /\ kept = <<>>
    /\ hist = <<>>

Init == InitWith(SchemaSamples, BOOLEAN)

InitFilter == InitWith(FilterFiles, {TRUE}) /\ ~etcdrpc_dir

----------------------------------------------------------------------------
(* main() *)

\* lines 32-45: the import succeeds
ImportOk ==
    /\ pc = "start"
    /\ importable
    /\ console' = console \o <<"--- Modifying rpc.proto before generation ---">>
    /\ pc' = "read"
    /\ UNCHANGED <<importable, fsVars, loopVars, result, exit_code>>

\* variant: the ImportError branch without sys.exit
ImportFail_NoExit ==
    /\ pc = "start"
    /\ ~importable
    /\ console' = console \o
          <<"Error: 'grpcio-tools' is not installed or not found in the current environment.",
            "Please install the required dependencies by running: pip install -e .[protoc]">>
    /\ pc' = "read"
    /\ UNCHANGED <<importable, fsVars, loopVars, result, exit_code>>

\* lines 34-43: ImportError
ImportFail ==
    /\ pc = "start"
    /\ ~importable
    /\ console' = console \o
          <<"Error: 'grpcio-tools' is not installed or not found in the current environment.",
            "Please install the required dependencies by running: pip install -e .[protoc]">>
    /\ exit_code' = <<1>>
    /\ pc' = "exit"
    /\ UNCHANGED <<importable, fsVars, loopVars, result>>

\* lines 48-52
ReadLines ==
    /\ pc = "read"
    /\ lines' = rpc_proto.content
    /\ modified_lines' = <<>>
    /\ skip_lines' = 0
    /\ idx' = 1
    /\ pc' = "loop"
    /\ UNCHANGED <<importable, fsVars, result, exit_code, console, kept, hist>>

\* the branch the next iteration takes
LineKind ==
    IF pc = "loop" /\ idx <= Len(lines)
    THEN Classify(lines[idx], skip_lines)
    ELSE "none"

\* lines 53-79: one iteration of the loop
ProcessLine ==
    /\ pc = "loop"
    /\ idx <= Len(lines)
    /\ LET r == FilterStep(lines[idx], skip_lines, modified_lines) IN
          /\ skip_lines' = r.skip
          /\ modified_lines' = r.out
          /\ console' = console \o r.echo
          /\ kept' = IF Len(r.out) > Len(modified_lines) THEN Append(kept, idx) ELSE kept
    /\ hist' = Append(hist, skip_lines)
    /\ idx' = idx + 1
    /\ UNCHANGED <<pc, importable, fsVars, lines, result, exit_code>>

\* lines 54-56
SkipLine ==
    /\ LineKind = "skip"
    /\ ProcessLine

\* lines 59-61
DropGogoproto ==
    /\ LineKind = "gogoproto"
    /\ ProcessLine

\* lines 64-66
DropAnnotations ==
    /\ LineKind = "annotations"
    /\ ProcessLine

\* lines 69-72
DropHttpBlock ==
    /\ LineKind = "http_block"
    /\ ProcessLine

\* lines 75-79
EmitLine ==
    /\ LineKind = "emit"
    /\ ProcessLine

\* lines 81-84: the loop is over
WriteProto ==
    /\ pc = "loop"
    /\ idx > Len(lines)
    /\ rpc_proto' = File(modified_lines)
    /\ console' = console \o <<"--- Running protoc ---">>
    /\ pc' = "mkdir"
    /\ UNCHANGED <<importable, etcdrpc_dir, init_py, rpc_pb2, rpc_pb2_grpc,
                   loopVars, result, exit_code>>

\* lines 87-101
MkDir ==
    /\ pc = "mkdir"
    /\ etcdrpc_dir' = TRUE
    /\ console' = console \o <<"Running: python -m grpc.tools.protoc ...">>
    /\ pc' = "protoc"
    /\ UNCHANGED <<importable, rpc_proto, init_py, rpc_pb2, rpc_pb2_grpc,
                   loopVars, result, exit_code>>

\* line 102: the child process runs to its end; it writes, or not, each artifact
RunProtoc ==
    /\ pc = "protoc"
    /\ \E rc \in 0..MaxCode, so \in Streams, se \in Streams :
          result' = <<[returncode |-> rc, stdout |-> so, stderr |-> se]>>
    /\ rpc_pb2' \in {rpc_pb2} \cup Generated(Pb2Pool)
    /\ rpc_pb2_grpc' \in {rpc_pb2_grpc} \cup Generated(GrpcPool)
    /\ pc' = "check"
    /\ UNCHANGED <<importable, rpc_proto, etcdrpc_dir, init_py, loopVars,
                   exit_code, console>>

\* variant: sys.exit(1) in place of sys.exit(result.returncode)
ProtocFailed_ExitOne ==
    /\ pc = "check"
    /\ result[1].returncode # 0
    /\ console' = console \o
          <<"protoc command failed:", result[1].stdout, result[1].stderr>>
    /\ exit_code' = <<1>>
    /\ pc' = "exit"
    /\ UNCHANGED <<importable, fsVars, loopVars, result>>

\* lines 103-107
ProtocFailed ==
    /\ pc = "check"
    /\ result[1].returncode # 0
    /\ console' = console \o
          <<"protoc command failed:", result[1].stdout, result[1].stderr>>
    /\ exit_code' = <<result[1].returncode>>
    /\ pc' = "exit"
    /\ UNCHANGED <<importable, fsVars, loopVars, result>>

\* lines 103, 109-118
ProtocOk ==
    /\ pc = "check"
    /\ result[1].returncode = 0
    /\ init_py' = TRUE
    /\ console' = console \o <<result[1].stdout>>
          \o (IF result[1].stderr # "" THEN <<"protoc stderr:", result[1].stderr>> ELSE <<>>)
          \o <<"--- Modifying generated python files ---">>
    /\ pc' = "patch_pb2"
    /\ UNCHANGED <<importable, rpc_proto, etcdrpc_dir, rpc_pb2, rpc_pb2_grpc,
                   loopVars, result, exit_code>>

\* lines 122-125
PatchPb2 ==
    /\ pc = "patch_pb2"
    /\ rpc_pb2.exists
    /\ console' = console \o <<"Patching imports in rpc_pb2.py">>
    /\ rpc_pb2' = File(sed_inplace(
                         sed_inplace(rpc_pb2.content, "import auth_pb2",
                                     "from etcd3.etcdrpc import auth_pb2"),
                         "import kv_pb2", "from etcd3.etcdrpc import kv_pb2"))
    /\ pc' = "patch_grpc"
    /\ UNCHANGED <<importable, rpc_proto, etcdrpc_dir, init_py, rpc_pb2_grpc,
                   loopVars, result, exit_code>>

\* lines 126-127
WarnPb2Missing ==
    /\ pc = "patch_pb2"
    /\ ~rpc_pb2.exists
    /\ console' = console \o <<"Warning: rpc_pb2.py not found for patching.">>
    /\ pc' = "patch_grpc"
    /\ UNCHANGED <<importable, fsVars, loopVars, result, exit_code>>

\* lines 131-133, 138
PatchGrpc ==
    /\ pc = "patch_grpc"
    /\ rpc_pb2_grpc.exists
    /\ console' = console \o <<"Patching imports in rpc_pb2_grpc.py",
                               "Proto files generated successfully.">>
    /\ rpc_pb2_grpc' = File(sed_inplace(rpc_pb2_grpc.content, "import rpc_pb2",
                                        "from etcd3.etcdrpc import rpc_pb2"))
    /\ exit_code' = <<0>>
    /\ pc' = "exit"
    /\ UNCHANGED <<importable, rpc_proto, etcdrpc_dir, init_py, rpc_pb2,
                   loopVars, result>>

\* variant: a missing rpc_pb2_grpc.py ends the run with exit code 1
WarnGrpcMissing_Fatal ==
    /\ pc = "patch_grpc"
    /\ ~rpc_pb2_grpc.exists
    /\ console' = console \o <<"Warning: rpc_pb2_grpc.py not found for patching.">>
    /\ exit_code' = <<1>>
    /\ pc' = "exit"
    /\ UNCHANGED <<importable, fsVars, loopVars, result>>

\* lines 134-138
WarnGrpcMissing ==
    /\ pc = "patch_grpc"
    /\ ~rpc_pb2_grpc.exists
    /\ console' = console \o <<"Warning: rpc_pb2_grpc.py not found for patching.",
                               "Proto files generated successfully.">>
    /\ exit_code' = <<0>>
    /\ pc' = "exit"
    /\ UNCHANGED <<importable, fsVars, loopVars, result>>

FilterPass ==
    \/ ReadLines
    \/ SkipLine
    \/ DropGogoproto
    \/ DropAnnotations
    \/ DropHttpBlock
    \/ EmitLine
    \/ WriteProto

Next ==
    \/ ImportOk
    \/ ImportFail
    \/ FilterPass
    \/ MkDir
    \/ RunProtoc
    \/ ProtocFailed
    \/ ProtocOk
    \/ PatchPb2
    \/ WarnPb2Missing
    \/ PatchGrpc
    \/ WarnGrpcMissing

\* the whole pipeline
Spec == Init /\ [][Next]_vars

\* the filter stage (up to the write-back of rpc.proto) over FilterFiles
NextFilter ==
    \/ ImportOk
    \/ FilterPass

SpecFilter == InitFilter /\ [][NextFilter]_vars

----------------------------------------------------------------------------
(* Vocabulary of the properties *)

Min(a, b) == IF a < b THEN a ELSE b

HasPrefix(s, p) == Len(s) >= Len(p) /\ SubSeq(s, 1, Len(p)) = p

Rest(s, n) == SubSeq(s, n + 1, Len(s))

\* a line with every KV_PATH and every AUTH_PATH replaced in one pass, left to right
RECURSIVE BothReplaced(_)
BothReplaced(s) ==
    IF Len(s) = 0 THEN s
    ELSE IF HasPrefix(s, "etcd/mvcc/mvccpb/kv.proto")
         THEN "kv.proto" \o BothReplaced(Rest(s, Len("etcd/mvcc/mvccpb/kv.proto")))
    ELSE IF HasPrefix(s, "etcd/auth/authpb/auth.proto")
         THEN "auth.proto" \o BothReplaced(Rest(s, Len("etcd/auth/authpb/auth.proto")))
    ELSE SubSeq(s, 1, 1) \o BothReplaced(Rest(s, 1))

HasOldPath(line) ==
    \/ Contains(line, "etcd/mvcc/mvccpb/kv.proto")
    \/ Contains(line, "etcd/auth/authpb/auth.proto")

HasDropMarker(line) ==
    \/ Contains(line, "gogoproto")
    \/ Contains(line, "google/api/annotations.proto")

IsTrigger(line) == Contains(line, "option (google.api.http)")

\* input positions whose line was appended to modified_lines
KeptSet == {kept[k] : k \in 1..Len(kept)}

\* the loop has been left and rpc.proto written back
FilterDone == pc \notin {"start", "read", "loop"} /\ importable

\* the next loop iteration exists
AtLine == pc = "loop" /\ idx <= Len(lines)

----------------------------------------------------------------------------
(* C1 *)

\* C1 as stated: after the pass, for every position i whose line contains
\* "option (google.api.http)", none of the positions i..i+3 (up to the end of
\* the input) was emitted.
C1_EveryTriggerDropsBlock ==
    FilterDone =>
        \A i \in 1..Len(lines) :
            IsTrigger(lines[i]) =>
                \A j \in i..Min(i + 3, Len(lines)) : j \notin KeptSet

\* C1 amended: no line containing "option (google.api.http)" is ever emitted;
\* and for every position i whose line contains it, contains neither drop
\* marker and is reached with the skip counter at 0, none of the positions
\* i..i+3 (up to the end of the input) is emitted, and a block cut short by
\* the end of the input ends the pass without an error.
C1_BlockDeletion ==
    /\ \A i \in 1..Len(hist) :
          /\ IsTrigger(lines[i]) => i \notin KeptSet
          /\ (IsTrigger(lines[i]) /\ ~HasDropMarker(lines[i]) /\ hist[i] = 0) =>
                \A j \in i..Min(i + 3, Len(hist)) : j \notin KeptSet
    /\ pc = "mkdir" => (Len(hist) = Len(lines) /\ exit_code = <<>>)

\* a block of four lines was dropped and the line after it emitted
C1_Witness ==
    /\ FilterDone
    /\ \E i \in 1..Len(lines) :
          /\ IsTrigger(lines[i]) /\ ~HasDropMarker(lines[i]) /\ hist[i] = 0
          /\ i + 4 \in KeptSet

----------------------------------------------------------------------------
(* C2 *)

\* C2: no line appended to modified_lines, and no line of the rewritten
\* rpc.proto, contains "gogoproto" or "google/api/annotations.proto"; the
\* lines looked at are the emitted ones, after the two substitutions.
C2_MarkerExclusion ==
    /\ \A k \in 1..Len(modified_lines) : ~HasDropMarker(modified_lines[k])
    /\ FilterDone =>
          \A k \in 1..Len(rpc_proto.content) : ~HasDropMarker(rpc_proto.content[k])

\* a marker line was in the input and a substituted line has been written
C2_Witness ==
    /\ FilterDone
    /\ \E i \in 1..Len(lines) : HasDropMarker(lines[i])
    /\ \E k \in 1..Len(kept) : rpc_proto.content[k] # lines[kept[k]]

----------------------------------------------------------------------------
(* C3 *)

\* C3: the emitted lines are, in input order, the kept input lines with
\* both path strings replaced and nothing else changed; a line with neither
\* path string is emitted unchanged; import "etcd/mvcc/mvccpb/kv.proto";
\* becomes import "kv.proto";.
C3_EmittedLines ==
    /\ Len(modified_lines) = Len(kept)
    /\ \A k \in 1..Len(kept) :
          /\ kept[k] \in 1..Len(lines)
          /\ k > 1 => kept[k - 1] < kept[k]
          /\ modified_lines[k] = BothReplaced(lines[kept[k]])
          /\ ~HasOldPath(lines[kept[k]]) => modified_lines[k] = lines[kept[k]]
          /\ lines[kept[k]] = "import \"etcd/mvcc/mvccpb/kv.proto\";"
                => modified_lines[k] = "import \"kv.proto\";"
    /\ FilterDone => rpc_proto.content = modified_lines

\* a line holding both path strings and a line holding none were emitted
C3_Witness ==
    /\ FilterDone
    /\ \E k \in 1..Len(kept) :
          /\ Contains(lines[kept[k]], "etcd/mvcc/mvccpb/kv.proto")
          /\ Contains(lines[kept[k]], "etcd/auth/authpb/auth.proto")
    /\ \E k \in 1..Len(kept) : ~HasOldPath(lines[kept[k]])

----------------------------------------------------------------------------
(* C8 *)

\* C8 as stated: for every input, filtering the rewritten file again gives
\* the same file.
C8_IdempotentAlways ==
    FilterDone => FilterLines(rpc_proto.content) = rpc_proto.content

\* C8 amended: when the rewritten file holds neither old path string,
\* filtering it again gives the same file.
C8_Idempotent ==
    (FilterDone /\ \A k \in 1..Len(rpc_proto.content) : ~HasOldPath(rpc_proto.content[k]))
        => FilterLines(rpc_proto.content) = rpc_proto.content

\* the first pass dropped a block and rewrote a line, and left no old path
C8_Witness ==
    /\ FilterDone
    /\ \A k \in 1..Len(rpc_proto.content) : ~HasOldPath(rpc_proto.content[k])
    /\ \E i \in 1..Len(lines) : IsTrigger(lines[i]) /\ hist[i] = 0 /\ i + 1 <= Len(lines)
    /\ Len(kept) > 0

----------------------------------------------------------------------------
(* C9 *)

\* C9: with the counter at 0, a line containing "gogoproto" or
\* "google/api/annotations.proto" is dropped alone whatever else it contains:
\* the counter stays 0, nothing is appended and the drop of a single line is
\* echoed; a line that reaches the substitutions has both applied.
C9_FirstMatchWins ==
    [][ /\ (AtLine /\ skip_lines = 0 /\ HasDropMarker(lines[idx])) =>
              /\ skip_lines' = 0
              /\ modified_lines' = modified_lines
              /\ idx' = idx + 1
              /\ Len(console') = Len(console) + 1
              /\ HasPrefix(console'[Len(console')], "Dropping line: ")
        /\ (AtLine /\ skip_lines = 0 /\ ~HasDropMarker(lines[idx]) /\ ~IsTrigger(lines[idx])) =>
              modified_lines' = Append(modified_lines, BothReplaced(lines[idx]))
      ]_vars

\* a line with "gogoproto" and the http option was dropped, the next one emitted
C9_Witness ==
    \E i \in 1..(Len(hist) - 1) :
        /\ hist[i] = 0
        /\ Contains(lines[i], "gogoproto") /\ IsTrigger(lines[i])
        /\ hist[i + 1] = 0
        /\ i + 1 \in KeptSet

----------------------------------------------------------------------------
(* C10 *)

\* C10: skip_lines stays in 0..3; a line met with a positive counter is
\* discarded without echo and the counter goes down by exactly one; the
\* counter only rises from 0 to 3, on a line containing the http option.
C10_SkipState ==
    /\ [](skip_lines \in 0..3)
    /\ [][ /\ (AtLine /\ skip_lines > 0) =>
                 /\ skip_lines' = skip_lines - 1
                 /\ modified_lines' = modified_lines
                 /\ console' = console
                 /\ idx' = idx + 1
           /\ skip_lines' > skip_lines =>
                 /\ skip_lines = 0 /\ skip_lines' = 3
                 /\ AtLine /\ IsTrigger(lines[idx])
           /\ skip_lines' < skip_lines => skip_lines' = skip_lines - 1
         ]_vars

\* a line containing the http option was met inside a block and only counted down
C10_Witness ==
    \E i \in 1..(Len(hist) - 1) :
        /\ hist[i] > 0
        /\ IsTrigger(lines[i]) /\ ~HasDropMarker(lines[i])
        /\ hist[i + 1] = hist[i] - 1

----------------------------------------------------------------------------
(* Vocabulary of the pipeline properties *)

Printed(m) == \E k \in 1..Len(console) : console[k] = m

GeneratorFailed == result # <<>> /\ result[1].returncode # 0

GeneratorSucceeded == result # <<>> /\ result[1].returncode = 0

\* no line of the file begins with the bare import of module m
NoBareImport(file, m) ==
    \A k \in 1..Len(file.content) : ~HasPrefix(file.content[k], "import " \o m)

\* new is old with the bare imports of the modules mods, at line start only, qualified
Patched(old, new, mods) ==
    /\ Len(new) = Len(old)
    /\ \A k \in 1..Len(old) :
          /\ \A m \in mods :
                HasPrefix(old[k], "import " \o m) =>
                    new[k] = "from etcd3.etcdrpc import " \o m
                                \o Rest(old[k], Len("import " \o m))
          /\ (\A m \in mods : ~HasPrefix(old[k], "import " \o m)) => new[k] = old[k]

----------------------------------------------------------------------------
(* C4 *)

\* C4: once the generator has returned a non-zero code c, the only step left
\* ends the process with exit code c, having printed both captured streams;
\* neither artifact is changed after the generator and nothing is patched.
C4_FailFast ==
    /\ [](GeneratorFailed /\ pc = "exit" =>
             /\ exit_code = <<result[1].returncode>>
             /\ Len(console) >= 3
             /\ SubSeq(console, Len(console) - 2, Len(console))
                   = <<"protoc command failed:", result[1].stdout, result[1].stderr>>
             /\ ~Printed("Patching imports in rpc_pb2.py")
             /\ ~Printed("Patching imports in rpc_pb2_grpc.py"))
    /\ [][ /\ GeneratorFailed => (pc' = "exit" /\ UNCHANGED <<rpc_pb2, rpc_pb2_grpc>>)
           /\ pc # "exit"
         ]_vars

\* the generator wrote an artifact, failed with code 2, and the artifact stays unpatched
C4_Witness ==
    /\ pc = "exit"
    /\ GeneratorFailed
    /\ exit_code = <<2>>
    /\ result[1].stderr # ""
    /\ rpc_pb2.exists /\ ~NoBareImport(rpc_pb2, "auth_pb2")

----------------------------------------------------------------------------
(* C5 *)

\* C5: when grpc.tools.protoc is not importable the process ends with exit
\* code 1, and no step of the run changes rpc.proto, the output directory,
\* __init__.py or an artifact, nor runs the generator.
C5_SetupError ==
    /\ [](~importable /\ pc = "exit" =>
             /\ exit_code = <<1>>
             /\ result = <<>>
             /\ lines = <<>>)
    /\ [][ ~importable => (pc' = "exit" /\ UNCHANGED fsVars /\ UNCHANGED result) ]_vars

\* the run ended on the ImportError with the schema still holding its dropped lines
C5_Witness ==
    /\ ~importable
    /\ pc = "exit"
    /\ rpc_proto.content = SampleSchema
    /\ ~etcdrpc_dir /\ ~init_py /\ ~rpc_pb2.exists

----------------------------------------------------------------------------
(* C6 *)

\* C6: after a generator run with exit code 0 the process always ends with
\* exit code 0; an absent artifact gets its warning and no patch, a present
\* one is patched whatever happened to the other.
C6_MissingArtifact ==
    /\ GeneratorSucceeded /\ pc # "exit" => (exit_code = <<>> /\ ENABLED Next)
    /\ GeneratorSucceeded /\ pc = "exit" =>
          /\ exit_code = <<0>>
          /\ Printed("Proto files generated successfully.")
          /\ ~rpc_pb2.exists =>
                /\ Printed("Warning: rpc_pb2.py not found for patching.")
                /\ ~Printed("Patching imports in rpc_pb2.py")
          /\ ~rpc_pb2_grpc.exists =>
                /\ Printed("Warning: rpc_pb2_grpc.py not found for patching.")
                /\ ~Printed("Patching imports in rpc_pb2_grpc.py")
          /\ rpc_pb2.exists =>
                /\ Printed("Patching imports in rpc_pb2.py")
                /\ NoBareImport(rpc_pb2, "auth_pb2") /\ NoBareImport(rpc_pb2, "kv_pb2")
          /\ rpc_pb2_grpc.exists =>
                /\ Printed("Patching imports in rpc_pb2_grpc.py")
                /\ NoBareImport(rpc_pb2_grpc, "rpc_pb2")

\* rpc_pb2_grpc.py is absent after a successful run, rpc_pb2.py was patched
C6_Witness ==
    /\ pc = "exit"
    /\ GeneratorSucceeded
    /\ ~rpc_pb2_grpc.exists
    /\ rpc_pb2.exists
    /\ \E k \in 1..Len(rpc_pb2.content) :
          HasPrefix(rpc_pb2.content[k], "from etcd3.etcdrpc import kv_pb2")

----------------------------------------------------------------------------
(* C7 *)

====
